---- MODULE Spec2Model ----
(***************************************************************************)
(* Model of backend/core/parsing.py: the label-anchored extraction of      *)
(* Revenue and Cost of Sales from the lines of a document, and the exact   *)
(* decimal subtraction that yields Gross Profit.                           *)
(*                                                                         *)
(* A Python str is a sequence of one-character strings; a str position p   *)
(* of the source (0-based) is position p + 1 here.  An Optional value is a *)
(* sequence of at most one element: None is <<>>, a present x is <<x>>.    *)
(* A step of the source that names an intermediate value several times is  *)
(* an operator that takes the value as a parameter.                        *)
(***************************************************************************)
EXTENDS Integers, Sequences, FiniteSets, TLC

VARIABLES
    lines,        \* extract_values_from_pdf: the stripped lines of the text
    i,            \* extract_values_from_pdf: the loop index (1-based)
    revenue,      \* extract_values_from_pdf: local revenue (None or a str)
    cos,          \* extract_values_from_pdf: local cos (None or a str)
    pc,           \* where the modelled call stands
    rev_failed,   \* history: a Revenue label line whose two lookups gave nothing was passed
    cos_failed,   \* history: the same for Cost of Sales
    rev_src,      \* history: the token (text, start, line) revenue was normalized from
    cos_src,      \* history: the same for cos
    line,         \* _best_number_after_label: argument line
    label,        \* _best_number_after_label: the pattern that made label_match
    raw,          \* _best_number_after_label: tokens found after the label
    candidates,   \* _best_number_after_label: tokens kept by the filter
    best,         \* _best_number_after_label: the return value
    revenue_str,  \* compute_gross_profit: first argument
    cos_str,      \* compute_gross_profit: second argument
    result        \* compute_gross_profit: the returned str or the raised exception

vars == <<lines, i, revenue, cos, pc, rev_failed, cos_failed, rev_src, cos_src,
          line, label, raw, candidates, best, revenue_str, cos_str, result>>

None == <<>>

Some(x) == <<x>>

\* the present value of an Optional
TheValue(o) == o[1]

(***************************************************************************)
(* Characters                                                              *)
(***************************************************************************)
Digits == <<"0", "1", "2", "3", "4", "5", "6", "7", "8", "9">>

UpperCase == <<"A", "B", "C", "D", "E", "F", "G", "H", "I", "J", "K", "L", "M",
               "N", "O", "P", "Q", "R", "S", "T", "U", "V", "W", "X", "Y", "Z">>

LowerCase == <<"a", "b", "c", "d", "e", "f", "g", "h", "i", "j", "k", "l", "m",
               "n", "o", "p", "q", "r", "s", "t", "u", "v", "w", "x", "y", "z">>

DigitChars == {Digits[k] : k \in DOMAIN Digits}

WordChars == DigitChars \cup {UpperCase[k] : k \in DOMAIN UpperCase}
                 \cup {LowerCase[k] : k \in DOMAIN LowerCase} \cup {"_"}

\* str.isdigit() of one character, and the class \d
IsDigitChar(c) == c \in DigitChars

\* the class \s, and the characters str.strip() removes
IsSpace(c) == c \in {" ", "\t"}

\* the characters of \w, which decide \b
IsWord(c) == c \in WordChars

\* re.IGNORECASE: letters are compared by their lower-case form
Lower(c) ==
    IF \E k \in DOMAIN UpperCase : UpperCase[k] = c
    THEN LowerCase[CHOOSE k \in DOMAIN UpperCase : UpperCase[k] = c]
    ELSE c

DigitValue(c) == (CHOOSE k \in DOMAIN Digits : Digits[k] = c) - 1

\* s[p] of a position that may lie outside the string ("" is no character)
At(s, p) == IF p >= 1 /\ p <= Len(s) THEN s[p] ELSE ""

(***************************************************************************)
(* str methods used by the source                                          *)
(***************************************************************************)
RECURSIVE Replace(_, _)
\* s.replace(c, '') for a one-character c
Replace(s, c) ==
    IF s = <<>> THEN <<>>
    ELSE IF Head(s) = c THEN Replace(Tail(s), c)
    ELSE <<Head(s)>> \o Replace(Tail(s), c)

RECURSIVE LStrip(_)
LStrip(s) == IF s # <<>> /\ IsSpace(Head(s)) THEN LStrip(Tail(s)) ELSE s

RECURSIVE RStrip(_)
RStrip(s) ==
    IF s # <<>> /\ IsSpace(s[Len(s)]) THEN RStrip(SubSeq(s, 1, Len(s) - 1)) ELSE s

\* s.strip()
Strip(s) == RStrip(LStrip(s))

\* s.isdigit(): non-empty and every character a digit
IsDigitStr(s) == s # <<>> /\ \A k \in DOMAIN s : IsDigitChar(s[k])

\* c in s
Contains(s, c) == \E k \in DOMAIN s : s[k] = c

RECURSIVE IntOf(_)
\* int(s) of a string of digits
IntOf(s) ==
    IF s = <<>> THEN 0
    ELSE 10 * IntOf(SubSeq(s, 1, Len(s) - 1)) + DigitValue(s[Len(s)])

(***************************************************************************)
(* _NUMBER_RE:                                                             *)
(*   \(?\s*\$?\s*\d{1,3}(?:\s*[,\.\s]\s*\d{3})*(?:\.\d+)?\s*\)?            *)
(* Each piece is an operator from the position it starts at to the         *)
(* position after it (0: no match).  Everything after \d{1,3} is optional, *)
(* so the greedy choice of every piece stands.                             *)
(***************************************************************************)
RECURSIVE SkipSpace(_, _)
\* \s*
SkipSpace(s, p) == IF IsSpace(At(s, p)) THEN SkipSpace(s, p + 1) ELSE p

RECURSIVE SkipDigits(_, _)
\* \d*
SkipDigits(s, p) == IF IsDigitChar(At(s, p)) THEN SkipDigits(s, p + 1) ELSE p

\* \(?
OpenParen(s, p) == IF At(s, p) = "(" THEN p + 1 ELSE p

\* \$?
Dollar(s, p) == IF At(s, p) = "$" THEN p + 1 ELSE p

\* \d{1,3}
LeadDigits(s, p) ==
    IF ~IsDigitChar(At(s, p)) THEN 0
    ELSE IF ~IsDigitChar(At(s, p + 1)) THEN p + 1
    ELSE IF ~IsDigitChar(At(s, p + 2)) THEN p + 2
    ELSE p + 3

\* \d{3}
ThreeDigits(s, p) ==
    IF IsDigitChar(At(s, p)) /\ IsDigitChar(At(s, p + 1)) /\ IsDigitChar(At(s, p + 2))
    THEN p + 3 ELSE 0

\* \s*[,\.\s]\s*\d{3} at p, the white space from p ending before q: the
\* separator is the ',' or '.' at q, or else the last white-space character
GroupFrom(s, p, q) ==
    IF At(s, q) \in {",", "."} THEN ThreeDigits(s, SkipSpace(s, q + 1))
    ELSE IF q > p THEN ThreeDigits(s, q)
    ELSE 0

GroupAt(s, p) == GroupFrom(s, p, SkipSpace(s, p))

RECURSIVE Groups(_, _)
RECURSIVE GroupsFrom(_, _, _)
\* (?:...)* : rounds are taken while they match; e is the end of a round at p
GroupsFrom(s, p, e) == IF e = 0 THEN p ELSE Groups(s, e)

Groups(s, p) == GroupsFrom(s, p, GroupAt(s, p))

\* (?:\.\d+)?
Fraction(s, p) ==
    IF At(s, p) = "." /\ IsDigitChar(At(s, p + 1)) THEN SkipDigits(s, p + 1) ELSE p

\* \)?
CloseParen(s, p) == IF At(s, p) = ")" THEN p + 1 ELSE p

\* what follows \d{1,3}, which ended before p
NumberTail(s, p) ==
    IF p = 0 THEN 0 ELSE CloseParen(s, SkipSpace(s, Fraction(s, Groups(s, p))))

\* _NUMBER_RE.match at p: the position after the match, 0 when none
_NUMBER_RE(s, p) ==
    NumberTail(s, LeadDigits(s, SkipSpace(s, Dollar(s, SkipSpace(s, OpenParen(s, p))))))

RECURSIVE Finditer(_, _)
RECURSIVE FinditerFrom(_, _, _)
\* e is the end of the match at p
FinditerFrom(s, p, e) ==
    IF e = 0 THEN Finditer(s, p + 1)
    ELSE <<[text |-> SubSeq(s, p, e - 1), start |-> p]>> \o Finditer(s, e)

\* [m.group(0) for m in _NUMBER_RE.finditer(s, pos)], pos = p - 1: the
\* matches in line order.  A token is [text, start]: the matched substring,
\* as the source holds it, and the position it starts at.
Finditer(s, p) == IF p > Len(s) THEN <<>> ELSE FinditerFrom(s, p, _NUMBER_RE(s, p))

(***************************************************************************)
(* The label patterns                                                      *)
(***************************************************************************)
\* \b at p: between s[p-1] and s[p]
WordBoundary(s, p) == IsWord(At(s, p - 1)) # IsWord(At(s, p))

\* the literal w at p, letters compared case-insensitively
Literal(s, p, w) == \A k \in DOMAIN w : Lower(At(s, p + k - 1)) = w[k]

\* a literal and then \b: the position after it, 0 when none
Word(s, p, w) ==
    IF Literal(s, p, w) /\ WordBoundary(s, p + Len(w)) THEN p + Len(w) ELSE 0

\* Revenues?\b at p (the s is tried first)
RevenueWord(s, p) ==
    IF Word(s, p, <<"r", "e", "v", "e", "n", "u", "e", "s">>) # 0 THEN p + 8
    ELSE Word(s, p, <<"r", "e", "v", "e", "n", "u", "e">>)

\* \bRevenues?\b at p: the position after the match, 0 when none
RevenueAt(s, p) == IF WordBoundary(s, p) THEN RevenueWord(s, p) ELSE 0

\* (Sales|Revenue|Revenues)\b at p; after Revenue and \b, Revenues cannot match
CosObject(s, p) ==
    IF Word(s, p, <<"s", "a", "l", "e", "s">>) # 0 THEN p + 5
    ELSE IF Word(s, p, <<"r", "e", "v", "e", "n", "u", "e">>) # 0 THEN p + 7
    ELSE Word(s, p, <<"r", "e", "v", "e", "n", "u", "e", "s">>)

\* \s+ at p and then what next matches: 0 when p holds no white space
AfterSpaces(p, q) == IF q > p THEN q ELSE 0

\* of\s+(Sales|Revenue|Revenues)\b at a, 0 for a = 0
CosOf(s, a) ==
    IF a # 0 /\ Literal(s, a, <<"o", "f">>) /\ AfterSpaces(a + 2, SkipSpace(s, a + 2)) # 0
    THEN CosObject(s, SkipSpace(s, a + 2))
    ELSE 0

\* \bCost\s+of\s+(Sales|Revenue|Revenues)\b at p
CosAt(s, p) ==
    IF WordBoundary(s, p) /\ Literal(s, p, <<"c", "o", "s", "t">>)
    THEN CosOf(s, AfterSpaces(p + 4, SkipSpace(s, p + 4)))
    ELSE 0

\* the label's pattern at p
LabelAt(lab, s, p) == IF lab = "revenue" THEN RevenueAt(s, p) ELSE CosAt(s, p)

RECURSIVE SearchFrom(_, _, _)
RECURSIVE SearchStep(_, _, _, _)
SearchStep(lab, s, p, e) == IF e # 0 THEN e ELSE SearchFrom(lab, s, p + 1)

\* pattern.search(s) from p: the leftmost match's end (m.end() + 1), 0 for None
SearchFrom(lab, s, p) ==
    IF p > Len(s) THEN 0 ELSE SearchStep(lab, s, p, LabelAt(lab, s, p))

_REVENUE_LABEL_RE(s) == SearchFrom("revenue", s, 1)

_COS_LABEL_RE(s) == SearchFrom("cos", s, 1)

(***************************************************************************)
(* Token helpers                                                           *)
(***************************************************************************)
\* value.strip().replace('$', '').replace(',', '').replace(' ', '').replace('.', '')
StripMoneyChars(value) ==
    Replace(Replace(Replace(Replace(Strip(value), "$"), ","), " "), ".")

\* ... .replace('(', '').replace(')', '') as well
StripMoneyCharsAndParens(value) == Replace(Replace(StripMoneyChars(value), "("), ")")

\* if v.startswith('(') and v.endswith(')'): v = '-' + v[1:-1]
Unparenthesize(v) ==
    IF v # <<>> /\ v[1] = "(" /\ v[Len(v)] = ")"
    THEN <<"-">> \o SubSeq(v, 2, Len(v) - 1)
    ELSE v

_normalize_value(value) == Unparenthesize(StripMoneyChars(value))

\* len(t) == 4 and t.isdigit() and 1900 <= int(t) <= 2100
IsYearText(t) == Len(t) = 4 /\ IsDigitStr(t) /\ 1900 <= IntOf(t) /\ IntOf(t) <= 2100

_looks_like_year(token) == IsYearText(StripMoneyChars(token))

\* (',' in raw) or (' ' in raw) or ('.' in raw)
HasGroup(text) == Contains(text, ",") \/ Contains(text, " ") \/ Contains(text, ".")

\* norm.isdigit() and len(norm) >= 4
LongDigits(norm) == IsDigitStr(norm) /\ Len(norm) >= 4

\* the test of _money_like_tokens
IsMoneyLike(t) ==
    Contains(t.text, "$") \/ HasGroup(t.text) \/ LongDigits(StripMoneyChars(t.text))

\* good or tokens
OrElse(good, tokens) == IF good # <<>> THEN good ELSE tokens

_money_like_tokens(tokens) == OrElse(SelectSeq(tokens, IsMoneyLike), tokens)

\* the three-way length term of _score_token
LengthScore(norm) == IF Len(norm) >= 6 THEN 3 ELSE IF Len(norm) >= 4 THEN 2 ELSE -2

_score_token(text) ==
      (IF Contains(text, "$") THEN 4 ELSE 0)
    + (IF HasGroup(text) THEN 3 ELSE 0)
    + LengthScore(StripMoneyChars(text))
    + (IF Contains(text, "(") /\ Contains(text, ")") THEN 1 ELSE 0)
    + (IF _looks_like_year(text) /\ ~Contains(text, "$") THEN -5 ELSE 0)

\* TakesOver without the tie rule: of equal scores the earlier candidate stays
TakesOverEarlier(s, idx, best_score, best_idx) == s > best_score

\* the test of _pick_best's loop: candidate idx, of score s, becomes the best
TakesOver(s, idx, best_score, best_idx) ==
    s > best_score \/ (s = best_score /\ idx > best_idx)

RECURSIVE PickLoop(_, _, _, _)
RECURSIVE PickStep(_, _, _, _, _)
PickStep(cands, idx, best_score, best_idx, s) ==
    IF TakesOver(s, idx, best_score, best_idx)
    THEN PickLoop(cands, idx + 1, s, idx)
    ELSE PickLoop(cands, idx + 1, best_score, best_idx)

\* _pick_best's loop from idx on: the final best_idx (0-based, as in the source)
PickLoop(cands, idx, best_score, best_idx) ==
    IF idx >= Len(cands) THEN best_idx
    ELSE PickStep(cands, idx, best_score, best_idx, _score_token(cands[idx + 1].text))

\* candidates[best_idx] of the filtered list
PickAmong(kept) == Some(kept[PickLoop(kept, 0, -1000000000, -1) + 1])

_pick_best(cands) == IF cands = <<>> THEN None ELSE PickAmong(_money_like_tokens(cands))

\* the filter of _best_number_after_label: money_like and not _looks_like_year(t)
KeptAfterLabel(t) ==
    /\ Contains(t.text, "$") \/ LongDigits(StripMoneyCharsAndParens(t.text))
    /\ ~_looks_like_year(t.text)

\* raw of _best_number_after_label; label_end is label_match.end() + 1
RawAfterLabel(ln, label_end) == Finditer(ln, label_end)

\* candidates of _best_number_after_label
CandidatesAfterLabel(raw_tokens) == SelectSeq(raw_tokens, KeptAfterLabel)

\* if not candidates: return None; return _pick_best(candidates)
BestCandidate(cands) == IF cands = <<>> THEN None ELSE _pick_best(cands)

\* if not raw: return None
BestAfterLabel(raw_tokens) ==
    IF raw_tokens = <<>> THEN None ELSE BestCandidate(CandidatesAfterLabel(raw_tokens))

_best_number_after_label(ln, label_end) == BestAfterLabel(RawAfterLabel(ln, label_end))

_pick_leftmost(cands) == IF cands # <<>> THEN Some(cands[1]) ELSE None

\* the token o, if any, with the index of the line it was found on
Located(o, k) ==
    IF o = None THEN None
    ELSE Some([text |-> TheValue(o).text, start |-> TheValue(o).start, line |-> k])

HasDollar(t) == Contains(t.text, "$")

\* Case 2 of _best_number_in_next_lines
IsLongToken(t) == LongDigits(StripMoneyCharsAndParens(t.text)) /\ ~_looks_like_year(t.text)

RECURSIVE NextLinesLoop(_, _, _, _)
RECURSIVE NextLineTokens(_, _, _, _, _)
\* one line of the window, its tokens being raw_tokens
NextLineTokens(lns, start_idx, window, j, raw_tokens) ==
    IF raw_tokens = <<>> THEN NextLinesLoop(lns, start_idx, window, j + 1)
    ELSE IF SelectSeq(raw_tokens, HasDollar) # <<>>
    THEN Located(_pick_leftmost(SelectSeq(raw_tokens, HasDollar)), start_idx + j)
    ELSE IF SelectSeq(raw_tokens, IsLongToken) # <<>>
    THEN Located(_pick_leftmost(SelectSeq(raw_tokens, IsLongToken)), start_idx + j)
    ELSE NextLinesLoop(lns, start_idx, window, j + 1)

\* the loop of _best_number_in_next_lines from j on; start_idx is 1-based.
\* A blank line has no token, so `if not line: continue` is the first case
\* of NextLineTokens.
NextLinesLoop(lns, start_idx, window, j) ==
    IF j > window \/ start_idx + j > Len(lns) THEN None
    ELSE NextLineTokens(lns, start_idx, window, j, Finditer(Strip(lns[start_idx + j]), 1))

_best_number_in_next_lines(lns, start_idx, window) == NextLinesLoop(lns, start_idx, window, 1)

(***************************************************************************)
(* extract_values_from_pdf: one action per iteration of its while loop     *)
(***************************************************************************)
RevenueWindow == 10

CosWindow == 12

WindowOf(lab) == IF lab = "revenue" THEN RevenueWindow ELSE CosWindow

\* pattern.search(line) of the label's pattern
LabelSearch(lab, ln) == IF lab = "revenue" THEN _REVENUE_LABEL_RE(ln) ELSE _COS_LABEL_RE(ln)

\* `not val` of an Optional[str]
Falsy(o) == o = None \/ TheValue(o).text = <<>>

\* if not val: val = _best_number_in_next_lines(lines, i, window=...)
OrNextLines(val, lab, lns, idx) ==
    IF Falsy(val) THEN _best_number_in_next_lines(lns, idx, WindowOf(lab)) ELSE val

\* val after the two lookups, for the match of the label on line idx that
\* ends before label_end
LabelToken(lab, lns, idx, label_end) ==
    OrNextLines(Located(_best_number_after_label(lns[idx], label_end), idx), lab, lns, idx)

\* m and val for line idx: whether the label matched, and the token chosen
OutcomeOf(lab, lns, idx, label_end) ==
    IF label_end = 0 THEN [matched |-> FALSE, val |-> None]
    ELSE [matched |-> TRUE, val |-> LabelToken(lab, lns, idx, label_end)]

LabelOutcome(lab, lns, idx) == OutcomeOf(lab, lns, idx, LabelSearch(lab, lns[idx]))

\* ResolveLabel without `if revenue is None`: every val found is stored
ResolveLabelOverwriting(current, val) ==
    IF ~Falsy(val) THEN Some(_normalize_value(TheValue(val).text)) ELSE current

\* `if revenue is None:` ... `if val: revenue = _normalize_value(val)` (the
\* same for cos): the label's value after a line, given its value before
\* and the val found for the line
ResolveLabel(current, val) ==
    IF current = None /\ ~Falsy(val)
    THEN Some(_normalize_value(TheValue(val).text))
    ELSE current

\* LoopGuard with `and` for `or`: the loop ends once either label is resolved
LoopGuardEither(idx, lns, rev, c) == idx <= Len(lns) /\ (rev = None /\ c = None)

\* the while condition; idx is 1-based
LoopGuard(idx, lns, rev, c) == idx <= Len(lns) /\ (rev = None \/ c = None)

\* ScanBody with Absent terminal: a label whose lookups once gave nothing is
\* not searched again
ScanBodyAbsentTerminal(r, c) ==
    /\ revenue' = IF rev_failed THEN revenue ELSE ResolveLabel(revenue, r.val)
    /\ cos' = IF cos_failed THEN cos ELSE ResolveLabel(cos, c.val)
    /\ i' = i + 1
    /\ rev_failed' = (rev_failed \/ (revenue = None /\ r.matched /\ Falsy(r.val)))
    /\ cos_failed' = (cos_failed \/ (cos = None /\ c.matched /\ Falsy(c.val)))
    /\ rev_src' = IF revenue = None /\ revenue' # None THEN r.val ELSE rev_src
    /\ cos_src' = IF cos = None /\ cos' # None THEN c.val ELSE cos_src

\* the body of the loop, r and c being the outcomes of the two labels on line i
ScanBody(r, c) ==
    /\ revenue' = ResolveLabel(revenue, r.val)
    /\ cos' = ResolveLabel(cos, c.val)
    /\ i' = i + 1
    /\ rev_failed' = (rev_failed \/ (revenue = None /\ r.matched /\ Falsy(r.val)))
    /\ cos_failed' = (cos_failed \/ (cos = None /\ c.matched /\ Falsy(c.val)))
    /\ rev_src' = IF revenue = None /\ ~Falsy(r.val) THEN r.val ELSE rev_src
    /\ cos_src' = IF cos = None /\ ~Falsy(c.val) THEN c.val ELSE cos_src

ScanLine ==
    /\ pc = "scan"
    /\ LoopGuard(i, lines, revenue, cos)
    /\ ScanBody(LabelOutcome("revenue", lines, i), LabelOutcome("cos", lines, i))
    /\ UNCHANGED <<lines, pc, line, label, raw, candidates, best, revenue_str, cos_str, result>>

\* return {"revenue": revenue, "cos": cos}
Return ==
    /\ pc = "scan"
    /\ ~LoopGuard(i, lines, revenue, cos)
    /\ pc' = "done"
    /\ UNCHANGED <<lines, i, revenue, cos, rev_failed, cos_failed, rev_src, cos_src,
                   line, label, raw, candidates, best, revenue_str, cos_str, result>>

(***************************************************************************)
(* The documents of the model: text.splitlines() of short texts whose      *)
(* lines are drawn from DocLines, with a run of blank lines, of the length *)
(* of a lookahead window, after the first line.                            *)
(***************************************************************************)
MaxLines == 3

DocLines == {
    <<>>,   \* ""
    <<"R", "e", "v", "e", "n", "u", "e", "s">>,   \* "Revenues"
    <<"R", "e", "v", "e", "n", "u", "e", "s", " ", "$", " ", "3", "5", "0", ",", "0", "1", "8">>,   \* "Revenues $ 350,018"
    <<" ", " ", "R", "e", "v", "e", "n", "u", "e", " ", "3", "0", "0", ",", "0", "0", "0", " ">>,   \* "  Revenue 300,000 "
    <<"C", "o", "s", "t", " ", "o", "f", " ", "S", "a", "l", "e", "s", " ", "(", "1", "4", "6", ",", "3", "0", "6", ")">>,   \* "Cost of Sales (146,306)"
    <<"C", "o", "s", "t", " ", "o", "f", " ", "R", "e", "v", "e", "n", "u", "e", " ", "1", "4", "6", ",", "3", "0", "6">>,   \* "Cost of Revenue 146,306"
    <<"$", " ", "3", "5", "0", ",", "0", "1", "8">>,   \* "$ 350,018"
    <<"R", "e", "v", "e", "n", "u", "e", "s", " ", "(", "3", "5", "0", ",", "0", "1", "8">>,   \* "Revenues (350,018"
    <<"C", "o", "s", "t", " ", "o", "f", " ", "S", "a", "l", "e", "s">>,   \* "Cost of Sales"
    <<"2", "0", "2", "3">>   \* "2023"
}

\* the sequences over S of length at most n
SeqsUpTo(S, n) == UNION {[1..k -> S] : k \in 0..n}

\* text d with g blank lines after its first line
WithGap(d, g) == IF d = <<>> THEN d ELSE <<d[1]>> \o [k \in 1..g |-> <<>>] \o Tail(d)

Texts == {WithGap(d, g) : d \in SeqsUpTo(DocLines, MaxLines), g \in {0, RevenueWindow, CosWindow}}

\* the values of the variables a specification does not use
IdleLine == line = <<>> /\ label = "revenue" /\ raw = <<>> /\ candidates = <<>> /\ best = None

IdlePass ==
    /\ lines = <<>> /\ i = 1 /\ revenue = None /\ cos = None
    /\ rev_failed = FALSE /\ cos_failed = FALSE /\ rev_src = None /\ cos_src = None

IdleGrossProfit == revenue_str = None /\ cos_str = None /\ result = None

\* lines = [ln.strip() for ln in text.splitlines()]; revenue = cos = None; i = 0
Init ==
    /\ \E text \in Texts : lines = [k \in DOMAIN text |-> Strip(text[k])]
    /\ i = 1
    /\ revenue = None
    /\ cos = None
    /\ pc = "scan"
    /\ rev_failed = FALSE
    /\ cos_failed = FALSE
    /\ rev_src = None
    /\ cos_src = None
    /\ IdleLine
    /\ IdleGrossProfit

Next == ScanLine \/ Return

Spec == Init /\ [][Next]_vars

(***************************************************************************)
(* _best_number_after_label as a function of its arguments: the lines are  *)
(* a label followed by at most MaxTokens pieces of text.                   *)
(***************************************************************************)
MaxTokens == 2

\* texts that hold a label
LabelTexts == {
    <<"R", "e", "v", "e", "n", "u", "e", "s">>,   \* "Revenues"
    <<"T", "o", "t", "a", "l", " ", "r", "e", "v", "e", "n", "u", "e">>,   \* "Total revenue"
    <<"C", "o", "s", "t", " ", "o", "f", " ", "S", "a", "l", "e", "s">>,   \* "Cost of Sales"
    <<"C", "o", "s", "t", " ", "o", "f", " ", "R", "e", "v", "e", "n", "u", "e", "s">>   \* "Cost of Revenues"
}

\* bare calendar years
YearTexts == {
    <<" ", "2", "0", "2", "3">>,   \* " 2023"
    <<" ", "1", "9", "9", "9">>   \* " 1999"
}

\* monetary amounts
AmountTexts == {
    <<" ", "3", "5", "0", ",", "0", "1", "8">>,   \* " 350,018"
    <<" ", "$", " ", "3", "5", "0", ",", "0", "1", "8">>,   \* " $ 350,018"
    <<" ", "$", " ", "3", "0", "0", ",", "0", "0", "0">>,   \* " $ 300,000"
    <<" ", "(", "1", "4", "6", ",", "3", "0", "6", ")">>   \* " (146,306)"
}

\* other text: a currency-marked year, small numbers, an unclosed parenthesis,
\* tab-separated digits, a word
OtherTexts == {
    <<" ", "$", "2", ",", "0", "2", "3">>,   \* " $2,023"
    <<" ", "$", " ", "5">>,   \* " $ 5"
    <<" ", "(", "1", ",", "2", "0", "0">>,   \* " (1,200"
    <<"\t", "1", "\t", "2", "3", "4">>,   \* "\t1\t234"
    <<" ", "1", "2">>,   \* " 12"
    <<" ", "a", "n", "d">>   \* " and"
}

PieceTexts == YearTexts \cup AmountTexts \cup OtherTexts

RECURSIVE Concat(_)
\* ''.join(pieces)
Concat(pieces) == IF pieces = <<>> THEN <<>> ELSE Head(pieces) \o Concat(Tail(pieces))

LineInputs == {lab \o Concat(ps) : lab \in LabelTexts, ps \in SeqsUpTo(PieceTexts, MaxTokens)}

\* a call _best_number_after_label(line, label_match), label_match being the
\* match of one of the two patterns on line
InitLine ==
    /\ line \in LineInputs
    /\ label \in {"revenue", "cos"}
    /\ LabelSearch(label, line) # 0
    /\ raw = <<>>
    /\ candidates = <<>>
    /\ best = None
    /\ pc = "call"
    /\ IdlePass
    /\ IdleGrossProfit

\* the locals and the return value, raw being raw_tokens
BestNumberBody(raw_tokens) ==
    /\ raw' = raw_tokens
    /\ candidates' = CandidatesAfterLabel(raw_tokens)
    /\ best' = BestAfterLabel(raw_tokens)

BestNumberAfterLabel ==
    /\ pc = "call"
    /\ line # <<>>
    /\ BestNumberBody(RawAfterLabel(line, LabelSearch(label, line)))
    /\ pc' = "returned"
    /\ UNCHANGED <<lines, i, revenue, cos, rev_failed, cos_failed, rev_src, cos_src,
                   line, label, revenue_str, cos_str, result>>

NextLine == BestNumberAfterLabel

SpecLine == InitLine /\ [][NextLine]_vars

(***************************************************************************)
(* decimal.Decimal, as compute_gross_profit uses it, under the default     *)
(* context (28 significant digits, ROUND_HALF_EVEN, InvalidOperation       *)
(* trapped).  A Decimal is [kind, sign, digits, exp]: kind is "finite",    *)
(* "inf", "nan" or "snan"; digits is the coefficient, most significant     *)
(* digit first, without leading zeros (<<0>> for zero; the payload for a   *)
(* NaN); the value of a finite one is (-1)^sign * digits * 10^exp.         *)
(***************************************************************************)
Prec == 28

Invalid == [kind |-> "invalid"]

Finite(sign, digits, exp) == [kind |-> "finite", sign |-> sign, digits |-> digits, exp |-> exp]

Special(kind, sign, payload) == [kind |-> kind, sign |-> sign, digits |-> payload, exp |-> 0]

\* n zeros
Zeros(n) == [k \in 1..n |-> 0]

RECURSIVE StripLeadingZeros(_)
StripLeadingZeros(ds) ==
    IF Len(ds) > 1 /\ Head(ds) = 0 THEN StripLeadingZeros(Tail(ds))
    ELSE IF ds = <<>> THEN <<0>>
    ELSE ds

\* the digits of a string of digit characters, and back
DigitsOfStr(s) == [k \in DOMAIN s |-> DigitValue(s[k])]

StrOfDigits(ds) == [k \in DOMAIN ds |-> Digits[ds[k] + 1]]

LowerStr(s) == [k \in DOMAIN s |-> Lower(s[k])]

\* [-+]?\d+ from p to the end of s: the exponent's value, given that the
\* digits start at q
ExponentValue(s, p, q) == IF At(s, p) = "-" THEN -IntOf(SubSeq(s, q, Len(s))) ELSE IntOf(SubSeq(s, q, Len(s)))

\* the exponent part, from p (just after the coefficient) to the end of s:
\* [ok, exp]
ExponentDigits(s, p, q) ==
    IF q <= Len(s) /\ SkipDigits(s, q) = Len(s) + 1
    THEN [ok |-> TRUE, exp |-> ExponentValue(s, p, q)]
    ELSE [ok |-> FALSE, exp |-> 0]

ExponentPart(s, p) ==
    IF p = Len(s) + 1 THEN [ok |-> TRUE, exp |-> 0]
    ELSE IF Lower(At(s, p)) # "e" THEN [ok |-> FALSE, exp |-> 0]
    ELSE ExponentDigits(s, p + 1, IF At(s, p + 1) \in {"+", "-"} THEN p + 2 ELSE p + 1)

\* the finite Decimal of sign, integer digits, fraction digits and exponent part
NumberOf(sign, int_part, frac_part, e) ==
    IF ~e.ok \/ int_part \o frac_part = <<>> THEN Invalid
    ELSE Finite(sign, StripLeadingZeros(DigitsOfStr(int_part \o frac_part)), e.exp - Len(frac_part))

\* a numeric string from p, its integer digits ending before a and its
\* coefficient before b
NumberParts(s, sign, p, a, b) ==
    NumberOf(sign, SubSeq(s, p, a - 1), SubSeq(s, a + 1, b - 1), ExponentPart(s, b))

NumberFrom(s, sign, p, a) ==
    NumberParts(s, sign, p, a, IF At(s, a) = "." THEN SkipDigits(s, a + 1) ELSE a)

\* the part of the string after its sign, in lower case for the names
Unsigned(s, low, sign, p) ==
    IF low \in {<<"i", "n", "f">>, <<"i", "n", "f", "i", "n", "i", "t", "y">>}
    THEN Special("inf", sign, <<>>)
    ELSE IF Len(low) >= 3 /\ SubSeq(low, 1, 3) = <<"n", "a", "n">>
            /\ \A k \in 4..Len(low) : IsDigitChar(low[k])
    THEN Special("nan", sign, SubSeq(low, 4, Len(low)))
    ELSE IF Len(low) >= 4 /\ SubSeq(low, 1, 4) = <<"s", "n", "a", "n">>
            /\ \A k \in 5..Len(low) : IsDigitChar(low[k])
    THEN Special("snan", sign, SubSeq(low, 5, Len(low)))
    ELSE NumberFrom(s, sign, p, SkipDigits(s, p))

\* the string with white space stripped and underscores dropped
SignedString(s) ==
    IF At(s, 1) = "-" THEN Unsigned(s, LowerStr(SubSeq(s, 2, Len(s))), 1, 2)
    ELSE IF At(s, 1) = "+" THEN Unsigned(s, LowerStr(SubSeq(s, 2, Len(s))), 0, 2)
    ELSE Unsigned(s, LowerStr(s), 0, 1)

\* Decimal(s) of a str: the Decimal, or Invalid where it raises InvalidOperation
DecimalOf(s) == SignedString(Replace(Strip(s), "_"))

RECURSIVE AddReversed(_, _, _)
\* the sum of two coefficients and a carry, least significant digit first
AddReversed(a, b, carry) ==
    IF a = <<>> /\ b = <<>> THEN (IF carry = 0 THEN <<>> ELSE <<carry>>)
    ELSE IF a = <<>> THEN AddReversed(<<0>>, b, carry)
    ELSE IF b = <<>> THEN AddReversed(a, <<0>>, carry)
    ELSE <<(Head(a) + Head(b) + carry) % 10>>
         \o AddReversed(Tail(a), Tail(b), (Head(a) + Head(b) + carry) \div 10)

RECURSIVE SubReversed(_, _, _)
\* a - b - borrow for a >= b, least significant digit first
SubReversed(a, b, borrow) ==
    IF a = <<>> THEN <<>>
    ELSE IF b = <<>> THEN SubReversed(a, <<0>>, borrow)
    ELSE <<(Head(a) - Head(b) - borrow + 10) % 10>>
         \o SubReversed(Tail(a), Tail(b), IF Head(a) - Head(b) - borrow < 0 THEN 1 ELSE 0)

Reverse(s) == [k \in DOMAIN s |-> s[Len(s) + 1 - k]]

AddMagnitude(a, b) == StripLeadingZeros(Reverse(AddReversed(Reverse(a), Reverse(b), 0)))

SubMagnitude(a, b) == StripLeadingZeros(Reverse(SubReversed(Reverse(a), Reverse(b), 0)))

RECURSIVE LexLess(_, _)
\* a < b for coefficients of the same length
LexLess(a, b) ==
    IF a = <<>> THEN FALSE
    ELSE IF Head(a) # Head(b) THEN Head(a) < Head(b)
    ELSE LexLess(Tail(a), Tail(b))

\* a < b for coefficients without leading zeros
LessMagnitude(a, b) == Len(a) < Len(b) \/ (Len(a) = Len(b) /\ LexLess(a, b))

\* the exact sum of two signed coefficients of one exponent; a zero sum of
\* opposite signs is +0
AddAligned(sa, a, sb, b, exp) ==
    IF sa = sb THEN Finite(sa, AddMagnitude(a, b), exp)
    ELSE IF a = b THEN Finite(0, <<0>>, exp)
    ELSE IF LessMagnitude(a, b) THEN Finite(sb, SubMagnitude(b, a), exp)
    ELSE Finite(sa, SubMagnitude(a, b), exp)

\* x + y for finite x and y, exactly, at the exponent exp = min(x.exp, y.exp)
AddAt(x, y, exp) ==
    AddAligned(x.sign, StripLeadingZeros(x.digits \o Zeros(x.exp - exp)),
               y.sign, StripLeadingZeros(y.digits \o Zeros(y.exp - exp)), exp)

ExactAdd(x, y) == AddAt(x, y, IF x.exp < y.exp THEN x.exp ELSE y.exp)

Negated(y) == [y EXCEPT !.sign = 1 - y.sign]

\* x - y for finite x and y, before rounding
ExactSub(x, y) == ExactAdd(x, Negated(y))

\* ROUND_HALF_EVEN: is the kept coefficient incremented, given the digits dropped?
RoundsUp(kept, dropped) ==
    \/ Head(dropped) > 5
    \/ Head(dropped) = 5 /\ \E k \in 2..Len(dropped) : dropped[k] # 0
    \/ Head(dropped) = 5 /\ kept[Len(kept)] % 2 = 1

\* the rounded coefficient, which may have grown to Prec + 1 digits (10..0)
Carried(sign, ds, exp) ==
    IF Len(ds) > Prec THEN Finite(sign, SubSeq(ds, 1, Prec), exp + 1)
    ELSE Finite(sign, ds, exp)

RoundParts(sign, kept, dropped, exp) ==
    IF RoundsUp(kept, dropped) THEN Carried(sign, AddMagnitude(kept, <<1>>), exp)
    ELSE Finite(sign, kept, exp)

\* the context's rounding of an exact result to Prec significant digits
Rounded(d) ==
    IF Len(d.digits) <= Prec THEN d
    ELSE RoundParts(d.sign, SubSeq(d.digits, 1, Prec),
                    SubSeq(d.digits, Prec + 1, Len(d.digits)),
                    d.exp + Len(d.digits) - Prec)

\* what an operation gives instead of a Decimal when it raises
Raised(exc) == [kind |-> "raise", exc |-> exc]

\* rev - cos: a signaling NaN and Infinity - Infinity signal InvalidOperation,
\* which the context traps; a quiet NaN is the result
DecimalSub(x, y) ==
    IF x.kind = "snan" \/ y.kind = "snan" THEN Raised("InvalidOperation")
    ELSE IF x.kind = "nan" THEN x
    ELSE IF y.kind = "nan" THEN y
    ELSE IF x.kind = "inf" /\ y.kind = "inf" /\ x.sign = y.sign THEN Raised("InvalidOperation")
    ELSE IF x.kind = "inf" THEN x
    ELSE IF y.kind = "inf" THEN Negated(y)
    ELSE Rounded(ExactSub(x, y))

RECURSIVE StripTrailingZeros(_)
\* [digits, exp] without the coefficient's trailing zeros
StripTrailingZeros(d) ==
    IF Len(d.digits) > 1 /\ d.digits[Len(d.digits)] = 0
    THEN StripTrailingZeros(Finite(d.sign, SubSeq(d.digits, 1, Len(d.digits) - 1), d.exp + 1))
    ELSE d

\* gp.normalize() of a quiet NaN, an infinity or a finite Decimal
Normalized(d) ==
    IF d.kind # "finite" THEN d
    ELSE IF d.digits = <<0>> THEN Finite(d.sign, <<0>>, 0)
    ELSE StripTrailingZeros(Rounded(d))

SignStr(d) == IF d.sign = 1 THEN <<"-">> ELSE <<>>

\* the digits of a finite Decimal in fixed-point notation
FixedPoint(ds, exp) ==
    IF exp >= 0 THEN ds \o StrOfDigits(Zeros(exp))
    ELSE IF Len(ds) > -exp
    THEN SubSeq(ds, 1, Len(ds) + exp) \o <<".">> \o SubSeq(ds, Len(ds) + exp + 1, Len(ds))
    ELSE <<"0", ".">> \o StrOfDigits(Zeros(-exp - Len(ds))) \o ds

\* format(d, 'f')
FormatF(d) ==
    IF d.kind = "inf" THEN SignStr(d) \o <<"I", "n", "f", "i", "n", "i", "t", "y">>
    ELSE IF d.kind = "nan" THEN SignStr(d) \o <<"N", "a", "N">> \o d.digits
    ELSE SignStr(d) \o FixedPoint(StrOfDigits(d.digits), d.exp)

(***************************************************************************)
(* compute_gross_profit                                                    *)
(***************************************************************************)
RECURSIVE RStripChar(_, _)
\* s.rstrip(c)
RStripChar(s, c) ==
    IF s # <<>> /\ s[Len(s)] = c THEN RStripChar(SubSeq(s, 1, Len(s) - 1), c) ELSE s

\* if '.' in s: s = s.rstrip('0').rstrip('.')
StripFraction(s) == IF Contains(s, ".") THEN RStripChar(RStripChar(s, "0"), ".") ELSE s

\* if s in ('-0', '-0.0', '0.0'): s = '0'
ZeroForms(s) ==
    IF s \in {<<"-", "0">>, <<"-", "0", ".", "0">>, <<"0", ".", "0">>} THEN <<"0">> ELSE s

Returned(s) == [kind |-> "return", value |-> s]

\* lines 204-210, gp being rev - cos or the exception it raises
GrossProfitOf(gp) ==
    IF gp.kind = "raise" THEN gp
    ELSE Returned(ZeroForms(StripFraction(FormatF(Normalized(gp)))))

\* lines 198-202, rev and cos being what Decimal() gives
Parsed(rev, c) ==
    IF rev.kind = "invalid" \/ c.kind = "invalid" THEN Raised("ValueError")
    ELSE GrossProfitOf(DecimalSub(rev, c))

\* what the call returns or raises; an argument is None or Some(str)
compute_gross_profit(rev_str, c_str) ==
    IF rev_str = None \/ c_str = None THEN Raised("ValueError")
    ELSE Parsed(DecimalOf(TheValue(rev_str)), DecimalOf(TheValue(c_str)))

\* the strings the arguments are drawn from: those of the repository's tests,
\* canonical and other numerals, a numeral of 30 digits, and strings that
\* are no numeral
NumberInputs == {
    <<"3", "5", "0", "0", "1", "8">>,   \* "350018"
    <<"1", "4", "6", "3", "0", "6">>,   \* "146306"
    <<"1", "0", "0", "0">>,   \* "1000"
    <<"-", "2", "0", "0">>,   \* "-200"
    <<"1", "0", "0", "0", ".", "0", "0">>,   \* "1000.00"
    <<"2", "0", "0", ".", "5", "0">>,   \* "200.50"
    <<"0">>,   \* "0"
    <<"-", "0">>,   \* "-0"
    <<"1", "0">>,   \* "10"
    <<"5">>,   \* "5"
    <<"1">>,   \* "1"
    <<"0", ".", "2", "5">>,   \* "0.25"
    <<"7", "9", "9", ".", "5">>,   \* "799.5"
    <<"1", "0", "0", "0", "0", "0", "0", "0", "0", "0", "0", "0", "0", "0", "0", "0", "0", "0", "0", "0", "0", "0", "0", "0", "0", "0", "0", "0", "0", "0">>,   \* "100000000000000000000000000000"
    <<"1", "0", "x">>,   \* "10x"
    <<>>,   \* ""
    <<" ", "1", "0", " ">>,   \* " 10 "
    <<"1", "e", "3">>,   \* "1e3"
    <<"1", "_", "0", "0", "0">>,   \* "1_000"
    <<"N", "a", "N">>,   \* "NaN"
    <<"s", "N", "a", "N">>,   \* "sNaN"
    <<"I", "n", "f", "i", "n", "i", "t", "y">>,   \* "Infinity"
    <<"-", "I", "n", "f", "i", "n", "i", "t", "y">>   \* "-Infinity"
}

ArgumentInputs == {None} \cup {Some(s) : s \in NumberInputs}

InitGrossProfit ==
    /\ revenue_str \in ArgumentInputs
    /\ cos_str \in ArgumentInputs
    /\ result = None
    /\ pc = "call"
    /\ IdlePass
    /\ IdleLine

ComputeGrossProfit ==
    /\ pc = "call"
    /\ result = None
    /\ result' = Some(compute_gross_profit(revenue_str, cos_str))
    /\ pc' = IF TheValue(result').kind = "return" THEN "returned" ELSE "raised"
    /\ UNCHANGED <<lines, i, revenue, cos, rev_failed, cos_failed, rev_src, cos_src,
                   line, label, raw, candidates, best, revenue_str, cos_str>>

NextGrossProfit == ComputeGrossProfit

SpecGrossProfit == InitGrossProfit /\ [][NextGrossProfit]_vars

(***************************************************************************)
(* Properties                                                              *)
(***************************************************************************)
\* an optional '-' and then digits only
IsCanonicalInteger(s) ==
    s # <<>> /\ IsDigitStr(IF s[1] = "-" THEN Tail(s) ELSE s)

\* C1: in every state of the pass, revenue and cos are each None or a
\* canonical decimal string: an optional leading '-' followed only by digits
\* (no currency symbol, separator, parenthesis or white space).
C1_CanonicalOutputs ==
    /\ revenue = None \/ IsCanonicalInteger(TheValue(revenue))
    /\ cos = None \/ IsCanonicalInteger(TheValue(cos))

\* the label's local of the pass
ValueOf(lab) == IF lab = "revenue" THEN revenue ELSE cos

\* C2 as stated: Absent is terminal.  Once a line matched a label and neither
\* lookup gave a token, the label is absent in every later state of the pass.
C2_AbsentIsTerminal ==
    /\ rev_failed => revenue = None
    /\ cos_failed => cos = None

\* no line of the document matches the label and yields a token
NoLineYields(lab) == \A k \in DOMAIN lines : Falsy(LabelOutcome(lab, lines, k).val)

\* C2 as amended: a label line whose two lookups give nothing leaves the
\* label unresolved, not terminally absent; the later lines that match the
\* label are searched too, and at the end of the pass a label is absent
\* exactly when no line that matches it yields a token.
C2_AbsentUnlessALineYields ==
    pc = "done" =>
        /\ revenue = None <=> NoLineYields("revenue")
        /\ cos = None <=> NoLineYields("cos")

\* a pass in which a label line exhausted its lookahead window on later
\* lines and a later label line resolved the label
C2_Witness ==
    \/ pc = "done" /\ rev_failed /\ revenue # None /\ Len(lines) > RevenueWindow + 1
    \/ pc = "done" /\ cos_failed /\ cos # None /\ Len(lines) > CosWindow + 1

\* C6: label resolution is monotonic.  No step of the pass changes a revenue
\* or a cos that holds a value, nor resets it to None.
C6_Monotonic ==
    [][(revenue # None => revenue' = revenue) /\ (cos # None => cos' = cos)]_vars

\* line k matches the label and yields a value other than v
YieldsOther(lab, k, v) ==
    /\ ~Falsy(LabelOutcome(lab, lines, k).val)
    /\ Some(_normalize_value(TheValue(LabelOutcome(lab, lines, k).val).text)) # v

\* the pass has scanned, after the line that resolved revenue, a line that
\* matches Revenue again and yields another value
C6_Witness ==
    /\ revenue # None
    /\ \E k \in 2..(i - 1) :
        /\ YieldsOther("revenue", k, revenue)
        /\ \E k0 \in 1..(k - 1) : ~Falsy(LabelOutcome("revenue", lines, k0).val)

RECURSIVE SoloPass(_, _, _, _)
\* the loop of extract_values_from_pdf for one label alone: its condition
\* and its body without the other label
SoloPass(lab, lns, idx, current) ==
    IF idx <= Len(lns) /\ current = None
    THEN SoloPass(lab, lns, idx + 1, ResolveLabel(current, LabelOutcome(lab, lns, idx).val))
    ELSE current

\* C9: at the end of the shared pass each label has the outcome it gets when
\* it is searched alone over the same lines.
C9_LabelIndependence ==
    pc = "done" =>
        /\ revenue = SoloPass("revenue", lines, 1, None)
        /\ cos = SoloPass("cos", lines, 1, None)

\* a pass that stopped early, both labels resolved from different lines and
\* lines left unscanned
C9_Witness ==
    /\ pc = "done"
    /\ i <= Len(lines)
    /\ revenue # None
    /\ cos # None
    /\ TheValue(rev_src).line # TheValue(cos_src).line

\* C10: the token revenue comes from never stands on a line that matches the
\* Cost of Sales pattern.
C10_RevenueNotFromCosLine ==
    rev_src # None => _COS_LABEL_RE(lines[TheValue(rev_src).line]) = 0

\* the value an amount text stands for: its digits, negative in parentheses
AmountValue(a) ==
    (IF Contains(a, "(") THEN <<"-">> ELSE <<>>) \o SelectSeq(a, IsDigitChar)

\* C5: on a line that holds the label, a bare calendar year and then a
\* monetary amount, the same-line search returns the amount: the value
\* extracted is the normalized amount.
C5_YearExclusion ==
    \A lab \in LabelTexts, y \in YearTexts, a \in AmountTexts :
        (pc = "returned" /\ line = lab \o y \o a) =>
            best # None /\ _normalize_value(TheValue(best).text) = AmountValue(a)

ScoreOf(k) == _score_token(candidates[k].text)

\* C7: of a non-empty list of same-line candidates _pick_best returns one of
\* maximum score, and of those of maximum score the one that starts last.
C7_PickBestMaxScoreLatest ==
    (pc = "returned" /\ candidates # <<>>) =>
        /\ best # None
        /\ \E k \in DOMAIN candidates :
            /\ candidates[k] = TheValue(best)
            /\ \A j \in DOMAIN candidates :
                \/ ScoreOf(j) < ScoreOf(k)
                \/ ScoreOf(j) = ScoreOf(k) /\ candidates[j].start <= candidates[k].start

\* a call with a candidate of lower score and two different candidates that
\* share the maximum score, the later of which is returned
C7_Witness ==
    /\ pc = "returned"
    /\ \E j, k \in DOMAIN candidates :
        /\ j < k
        /\ candidates[j].text # candidates[k].text
        /\ ScoreOf(j) = ScoreOf(k)
        /\ \A m \in DOMAIN candidates : ScoreOf(m) <= ScoreOf(k)
        /\ candidates[k] = TheValue(best)

\* a bare year: four digits of value 1900 to 2100 and no currency symbol
IsBareYear(t) == ~HasDollar(t) /\ IsYearText(StripMoneyChars(t.text))

\* C8: a token after the label is a candidate if and only if it carries a
\* currency symbol, or has at least 4 digits after stripping grouping
\* characters and is not a bare year.
C8_SameLineFilter ==
    pc = "returned" =>
        \A k \in DOMAIN raw :
            (\E j \in DOMAIN candidates : candidates[j] = raw[k])
                <=> (HasDollar(raw[k])
                     \/ (LongDigits(StripMoneyCharsAndParens(raw[k].text)) /\ ~IsBareYear(raw[k])))

\* the digits of s from p to its end form \d+ or \d+\.\d*[1-9]
CanonicalBody(s, a) ==
    \/ a > 1 /\ a = Len(s) + 1
    \/ /\ a > 1 /\ At(s, a) = "." /\ a + 1 <= Len(s)
       /\ SkipDigits(s, a + 1) = Len(s) + 1 /\ s[Len(s)] # "0"

Unsign(s) == IF At(s, 1) = "-" THEN Tail(s) ELSE s

\* a canonical decimal string: an optional '-', digits, an optional '.' and
\* digits that do not end in 0; zero is "0"
IsCanonicalDecimal(s) ==
    CanonicalBody(Unsign(s), SkipDigits(Unsign(s), 1)) /\ s # <<"-", "0">>

\* two finite Decimals of one value
SameValue(x, y) ==
    /\ x.kind = "finite"
    /\ y.kind = "finite"
    /\ \/ x.digits = <<0>> /\ y.digits = <<0>>
       \/ StripTrailingZeros(x) = StripTrailingZeros(y)

\* C3: for canonical decimal strings revenue and cost_of_sales the call
\* returns the canonical decimal string of the exact difference.
C3_ExactCanonicalDifference ==
    (/\ pc # "call" /\ revenue_str # None /\ cos_str # None
     /\ IsCanonicalDecimal(TheValue(revenue_str))
     /\ IsCanonicalDecimal(TheValue(cos_str))) =>
        /\ TheValue(result).kind = "return"
        /\ IsCanonicalDecimal(TheValue(result).value)
        /\ SameValue(DecimalOf(TheValue(result).value),
                     ExactSub(DecimalOf(TheValue(revenue_str)), DecimalOf(TheValue(cos_str))))

\* the argument is a string that stands for an exact decimal number
IsExactDecimal(a) == a # None /\ DecimalOf(TheValue(a)).kind = "finite"

\* C4: when an argument is absent or is no exact decimal number, the call
\* raises ValueError, and nothing else.
C4_ValueErrorOnBadInput ==
    (pc # "call" /\ (~IsExactDecimal(revenue_str) \/ ~IsExactDecimal(cos_str))) =>
        TheValue(result) = Raised("ValueError")

====
